---------------------------- MODULE Spec2Model ----------------------------
(***************************************************************************)
(* Model of tiny-pop3-server.py: one in-memory Mailbox shared by every     *)
(* POP3 session and by the GUI, and the POP3Server sessions that drive it  *)
(* through the twisted.mail.pop3.POP3 command handlers.                    *)
(*                                                                         *)
(* The reactor is single-threaded: every handler (one received line, one   *)
(* GUI button press, one connection event) runs to completion, so each is  *)
(* one atomic action.                                                      *)
(***************************************************************************)
EXTENDS Integers, Sequences, FiniteSets, TLC

\* ------------------------------------------------------------------ bounds
MaxObjects == 2         \* Message objects constructed over the whole run

\* the client connections: two, so that one session can hold the mailbox
\* while the other contends for it
Sessions == {"c1", "c2"}
\* message numbers a client sends: 0 and negatives, in range, above range
Numbers  == (0 - 1)..(MaxObjects + 1)

\* ------------------------------------------------------- program constants
DEFAULT_USERNAME == "user"
DEFAULT_PASSWORD == "pass"

None == "None"
\* an optional argument: NoArg when the caller passes none, Arg(i) otherwise
NoArg  == <<>>
Arg(i) == <<i>>

\* names and secrets a client may send
Usernames == {DEFAULT_USERNAME, "eve"}
Passwords == {DEFAULT_PASSWORD, "guess"}
\* contents of the files the developer may import
ImportFiles == {"ab"}

VARIABLES
    messages,                \* Mailbox.messages: sequence of Message objects
    message_generate_count,  \* GUI.message_generate_count
    nextObj,                 \* identity of the next Message object constructed
    connected,               \* per session: is the connection open
    userIs,                  \* per session: POP3._userIs
    mbox,                    \* per session: POP3.mbox is set (the avatar)
    deleBy,                  \* per session: objects it sent a successful DELE for
    last                     \* the Mailbox method that last wrote self.messages

vars == <<messages, message_generate_count, nextObj, connected, userIs, mbox,
          deleBy, last>>

\* -------------------------------------------------------------- Message
\* Message.__init__: content, label, and the deleted flag starting False.
\* obj is the identity of the Python object.
Message(content, label, obj) ==
    [content |-> content, label |-> label, deleted |-> FALSE, obj |-> obj]

\* Message.delete that also drops the content
MessageDeleteDropsContent(m) == [m EXCEPT !.deleted = TRUE, !.content = ""]

\* Message.delete / Message.undelete
MessageDelete(m)   == [m EXCEPT !.deleted = TRUE]
MessageUndelete(m) == [m EXCEPT !.deleted = FALSE]

\* GUI.add_message's generated text
GeneratedContent(n) ==
    "Hi there!\nGenerated message number " \o ToString(n) \o " goes here.\n"

\* ------------------------------------------------------- Python indexing
\* position (1-based) that the Python expression seq[index] reads
PyPos(len, index) == IF index >= 0 THEN index + 1 ELSE len + index + 1
PyInRange(len, index) == PyPos(len, index) \in 1..len

\* -------------------------------------------------------------- Mailbox
\* Every operation returns [exc, val]: exc = "" when it returns normally.
Ok(val)    == [exc |-> "", val |-> val]
Raise(exc) == [exc |-> exc, val |-> None]

\* Mailbox.listMessages(index=None)
listMessages(msgs, index) ==
    IF index = NoArg
    THEN Ok([i \in 1..Len(msgs) |-> Len(msgs[i].content)])
    ELSE IF index[1] >= Len(msgs) THEN Raise("ValueError")
    ELSE IF ~PyInRange(Len(msgs), index[1]) THEN Raise("IndexError")
    ELSE Ok(Len(msgs[PyPos(Len(msgs), index[1])].content))

\* Mailbox.getMessage(index): line 32 imports the class StringIO from io, so
\* the expression StringIO.StringIO raises AttributeError before the
\* message is read.
getMessage(msgs, index) ==
    IF index >= Len(msgs) THEN Raise("ValueError")
    ELSE Raise("AttributeError")

\* Mailbox.getUidl(index): content is a str (an f-string at line 247, a
\* text-mode read at line 262) and hashlib.sha1 takes bytes only.
getUidl(msgs, index) ==
    IF index >= Len(msgs) THEN Raise("ValueError")
    ELSE IF ~PyInRange(Len(msgs), index) THEN Raise("IndexError")
    ELSE Raise("TypeError")

\* Mailbox.deleteMessage(index): val is the mailbox afterwards
deleteMessage(msgs, index) ==
    IF index >= Len(msgs) THEN Raise("ValueError")
    ELSE IF ~PyInRange(Len(msgs), index) THEN Raise("IndexError")
    ELSE Ok([msgs EXCEPT ![PyPos(Len(msgs), index)] = MessageDelete(@)])

\* Mailbox.undeleteMessages(index): index is a required parameter; a call
\* that passes none raises TypeError before the body runs.
undeleteMessages(msgs, index) ==
    IF index = NoArg THEN Raise("TypeError")
    ELSE IF index[1] >= Len(msgs) THEN Raise("ValueError")
    ELSE IF ~PyInRange(Len(msgs), index[1]) THEN Raise("IndexError")
    ELSE Ok([msgs EXCEPT ![PyPos(Len(msgs), index[1])] = MessageUndelete(@)])

\* Mailbox.sync(): the loop that appends every message not deleted to keep
RECURSIVE syncKeep(_, _, _)
syncKeep(msgs, i, keep) ==
    IF i > Len(msgs) THEN keep
    ELSE syncKeep(msgs, i + 1,
                  IF ~msgs[i].deleted THEN Append(keep, msgs[i]) ELSE keep)

\* sync with the loop starting one message late
syncSkipsFirst(msgs) == syncKeep(msgs, 2, <<>>)

\* sync with a loop that stops one short and keeps the last message as it is
syncKeepsLast(msgs) ==
    IF msgs = <<>> THEN <<>>
    ELSE Append(syncKeep(SubSeq(msgs, 1, Len(msgs) - 1), 1, <<>>),
                msgs[Len(msgs)])

sync(msgs) == syncKeep(msgs, 1, <<>>)

\* addMessage that inserts at the head of the list
addMessageFirst(msgs, msg) == <<msg>> \o msgs

\* Mailbox.addMessage(msg)
addMessage(msgs, msg) == Append(msgs, msg)

\* The EVENT_MAILBOXCHANGE events of one Mailbox call: one entry for each
\* emit_event call the method makes, holding self.messages as it stands
\* when the event is generated. listMessages, getMessage and getUidl have no
\* emit_event call; deleteMessage and undeleteMessages reach theirs after
\* Message.delete / Message.undelete, unless they raise before; sync
\* reaches it after self.messages = keep, addMessage after the append.
listMessagesEvents(msgs, index) == <<>>
getMessageEvents(msgs, index)   == <<>>
getUidlEvents(msgs, index)      == <<>>
deleteMessageEvents(msgs, index) ==
    IF deleteMessage(msgs, index).exc = ""
    THEN <<deleteMessage(msgs, index).val>> ELSE <<>>
undeleteMessagesEvents(msgs, index) ==
    IF undeleteMessages(msgs, index).exc = ""
    THEN <<undeleteMessages(msgs, index).val>> ELSE <<>>

\* sync that generates its event before it assigns self.messages
syncEventsBeforeWrite(msgs) == <<msgs>>

syncEvents(msgs) == <<sync(msgs)>>
addMessageEvents(msgs, msg) == <<addMessage(msgs, msg)>>

\* --------------------------------------------------------------- sessions
\* requestAvatar behind a lock that the sync of the last QUIT left held
requestAvatarHeld(user, password) ==
    /\ user = DEFAULT_USERNAME
    /\ password = DEFAULT_PASSWORD
    /\ last.op # "sync"

\* requestAvatar with a checker that looks at the username only
requestAvatarAnyPassword(user, password) == user = DEFAULT_USERNAME

\* SimpleRealm.requestAvatar as reached from POP3.do_PASS through
\* Portal.login: the checker holds the one pair added at line 295, and the
\* realm hands out the shared mailbox, whatever other session holds it, with
\* a logout that does nothing.
requestAvatar(user, password) ==
    user = DEFAULT_USERNAME /\ password = DEFAULT_PASSWORD

\* the session states of RFC 1939 as POP3Server holds them
SessionState(s) ==
    IF ~connected[s] THEN "CLOSED"
    ELSE IF mbox[s] THEN "TRANSACTION" ELSE "AUTHORIZATION"

InTransaction == {s \in Sessions : SessionState(s) = "TRANSACTION"}

Objs(msgs)     == {msgs[i].obj : i \in 1..Len(msgs)}
Flagged(msgs)  == {msgs[i].obj : i \in {j \in 1..Len(msgs) : msgs[j].deleted}}
Contents(msgs) == [i \in 1..Len(msgs) |-> msgs[i].content]

\* the Mailbox method that wrote self.messages last, the mailbox it found,
\* and the EVENT_MAILBOXCHANGE events it generated
Last(op, events) == [op |-> op, pre |-> messages, events |-> events]

Init ==
    /\ messages = <<>>
    /\ message_generate_count = 0
    /\ nextObj = 1
    /\ connected = [s \in Sessions |-> FALSE]
    /\ userIs = [s \in Sessions |-> None]
    /\ mbox = [s \in Sessions |-> FALSE]
    /\ deleBy = [s \in Sessions |-> {}]
    /\ last = [op |-> "__init__", pre |-> <<>>, events |-> <<>>]

\* GUI.add_message
add_message ==
    /\ nextObj <= MaxObjects
    /\ message_generate_count' = message_generate_count + 1
    /\ LET msg == Message(GeneratedContent(message_generate_count + 1), None,
                          nextObj)
       IN  /\ messages' = addMessage(messages, msg)
           /\ last' = Last("addMessage", addMessageEvents(messages, msg))
    /\ nextObj' = nextObj + 1
    /\ UNCHANGED <<connected, userIs, mbox, deleBy>>

\* GUI.import_message, one file chosen
import_message ==
    /\ nextObj <= MaxObjects
    /\ \E content \in ImportFiles :
          LET msg == Message(content, "file", nextObj)
          IN  /\ messages' = addMessage(messages, msg)
              /\ last' = Last("addMessage", addMessageEvents(messages, msg))
    /\ nextObj' = nextObj + 1
    /\ UNCHANGED <<message_generate_count, connected, userIs, mbox, deleBy>>

\* the connection of s is gone: the POP3Server instance is dropped with it.
\* POP3.connectionLost calls the logout that requestAvatar returned,
\* lambda: None, which leaves the mailbox as it is.
Closed(s) ==
    /\ connected' = [connected EXCEPT ![s] = FALSE]
    /\ mbox' = [mbox EXCEPT ![s] = FALSE]
    /\ userIs' = [userIs EXCEPT ![s] = None]
    /\ deleBy' = [deleBy EXCEPT ![s] = {}]

\* a client connects: a new POP3Server instance greets it
Connect(s) ==
    /\ ~connected[s]
    /\ connected' = [connected EXCEPT ![s] = TRUE]
    /\ UNCHANGED <<messages, message_generate_count, nextObj, userIs, mbox,
                   deleBy, last>>

\* the transport drops the connection without a QUIT
Disconnect(s) ==
    /\ connected[s]
    /\ Closed(s)
    /\ UNCHANGED <<messages, message_generate_count, nextObj, last>>

\* ---------------------------------------------- POP3 command handlers
\* POP3Server.lineReceived logs the line and hands it to
\* twisted.mail.pop3.POP3, whose do_<COMMAND> methods call the Mailbox.
\* processCommand refuses every command but USER, PASS and QUIT while
\* self.mbox is unset.
\*
\* Each <COMMAND>Reply is what the server answers to the command in the
\* current state: reply is "+OK", "-ERR", "none" (no line is sent) or "lost"
\* (the exception leaves lineReceived and the transport drops the
\* connection); data is what the line carries.

RECURSIVE Sum(_)
Sum(seq) == IF seq = <<>> THEN 0 ELSE Head(seq) + Sum(Tail(seq))

Reply(reply, data) == [reply |-> reply, data |-> data]

\* PASS secret: do_PASS wants a USER before it and logs in through the portal
PASSReply(s, password) ==
    IF userIs[s] = None THEN Reply("-ERR", <<>>)
    ELSE IF requestAvatar(userIs[s], password) THEN Reply("+OK", <<>>)
    ELSE Reply("-ERR", <<>>)

\* STAT: the number of entries of listMessages() and their sum
STATReply(s) ==
    IF ~mbox[s] THEN Reply("-ERR", <<>>)
    ELSE LET sizes == listMessages(messages, NoArg).val
         IN  Reply("+OK", <<Len(sizes), Sum(sizes)>>)

\* LIST with no argument: one line "number size" per entry of listMessages()
LISTReply(s) ==
    IF ~mbox[s] THEN Reply("-ERR", <<>>)
    ELSE LET sizes == listMessages(messages, NoArg).val
         IN  Reply("+OK", [i \in 1..Len(sizes) |-> <<i, sizes[i]>>])

\* LIST n: do_LIST refuses n < 1, then calls listMessages(n - 1)
LISTnReply(s, n) ==
    IF ~mbox[s] \/ n < 1 THEN Reply("-ERR", <<>>)
    ELSE LET r == listMessages(messages, Arg(n - 1))
         IN  IF r.exc = "" THEN Reply("+OK", <<n, r.val>>)
             ELSE Reply("-ERR", <<>>)

\* RETR n: _getMessageFile refuses n < 1, asks listMessages(n - 1) for the
\* size (a size of 0 is answered "message deleted"), then calls
\* getMessage(n - 1); an exception other than ValueError and IndexError is
\* logged and no line is sent.
RETRReply(s, n) ==
    IF ~mbox[s] \/ n < 1 THEN Reply("-ERR", <<>>)
    ELSE LET size == listMessages(messages, Arg(n - 1))
             r    == getMessage(messages, n - 1)
         IN  IF size.exc # "" THEN Reply("-ERR", <<>>)
             ELSE IF size.val = 0 THEN Reply("-ERR", <<>>)
             ELSE IF r.exc = "" THEN Reply("+OK", <<r.val>>)
             ELSE IF r.exc \in {"ValueError", "IndexError"}
             THEN Reply("-ERR", <<>>)
             ELSE Reply("none", <<>>)

\* UIDL n: do_UIDL refuses n < 1 and answers ValueError and IndexError of
\* getUidl(n - 1) with -ERR.  Any other exception reaches state_COMMAND,
\* which builds its -ERR line from the exception's arguments: the line is
\* sent, or building it raises again and the connection is dropped.  The
\* set holds every reply the command may get.
UIDLnReplies(s, n) ==
    IF ~mbox[s] \/ n < 1 THEN {Reply("-ERR", <<>>)}
    ELSE LET r == getUidl(messages, n - 1)
         IN  IF r.exc = "" THEN {Reply("+OK", <<r.val>>)}
             ELSE IF r.exc \in {"ValueError", "IndexError"}
             THEN {Reply("-ERR", <<>>)}
             ELSE {Reply("-ERR", <<>>), Reply("lost", <<>>)}

\* DELE n: do_DELE calls deleteMessage(int(n) - 1) with no check of its
\* own.  state_COMMAND answers ValueError with -ERR; IndexError is not among
\* the exceptions it catches, so it leaves lineReceived and the connection is
\* dropped.
DELEReply(s, n) ==
    IF ~mbox[s] THEN Reply("-ERR", <<>>)
    ELSE LET r == deleteMessage(messages, n - 1)
         IN  IF r.exc = "" THEN Reply("+OK", <<>>)
             ELSE IF r.exc = "ValueError" THEN Reply("-ERR", <<>>)
             ELSE Reply("lost", <<>>)

\* the mailbox after DELE n
DELEMailbox(s, n) ==
    IF DELEReply(s, n).reply = "+OK"
    THEN deleteMessage(messages, n - 1).val ELSE messages

\* RSET: do_RSET calls self.mbox.undeleteMessages() with no argument and
\* answers any exception with -ERR.
RSETReply(s) ==
    IF ~mbox[s] THEN Reply("-ERR", <<>>)
    ELSE IF undeleteMessages(messages, NoArg).exc = "" THEN Reply("+OK", <<>>)
    ELSE Reply("-ERR", <<>>)

\* the mailbox after RSET
RSETMailbox(s) ==
    IF RSETReply(s).reply = "+OK"
    THEN undeleteMessages(messages, NoArg).val ELSE messages

\* NOOP
NOOPReply(s) == IF mbox[s] THEN Reply("+OK", <<>>) ELSE Reply("-ERR", <<>>)

\* USER name: do_USER stores the name
USER(s, name) ==
    /\ connected[s]
    /\ userIs' = [userIs EXCEPT ![s] = name]
    /\ UNCHANGED <<messages, message_generate_count, nextObj, connected, mbox,
                   deleBy, last>>

PASS(s, password) ==
    /\ connected[s]
    /\ IF userIs[s] = None
       THEN UNCHANGED <<userIs, mbox>>
       ELSE /\ userIs' = [userIs EXCEPT ![s] = None]
            /\ IF PASSReply(s, password).reply = "+OK"
               THEN mbox' = [mbox EXCEPT ![s] = TRUE]
               ELSE UNCHANGED mbox
    /\ UNCHANGED <<messages, message_generate_count, nextObj, connected, deleBy,
                   last>>

\* STAT, LIST, LIST n, RETR n and NOOP send their reply and change nothing
STAT(s) ==
    /\ connected[s]
    /\ STATReply(s).reply \in {"+OK", "-ERR"}
    /\ UNCHANGED vars

LIST(s) ==
    /\ connected[s]
    /\ LISTReply(s).reply \in {"+OK", "-ERR"}
    /\ UNCHANGED vars

LISTn(s, n) ==
    /\ connected[s]
    /\ LISTnReply(s, n).reply \in {"+OK", "-ERR"}
    /\ UNCHANGED vars

RETR(s, n) ==
    /\ connected[s]
    /\ RETRReply(s, n).reply \in {"+OK", "-ERR", "none"}
    /\ UNCHANGED vars

NOOP(s) ==
    /\ connected[s]
    /\ NOOPReply(s).reply \in {"+OK", "-ERR"}
    /\ UNCHANGED vars

UIDLn(s, n) ==
    /\ connected[s]
    /\ \E r \in UIDLnReplies(s, n) :
         IF r.reply = "lost"
         THEN /\ Closed(s)
              /\ UNCHANGED <<messages, message_generate_count, nextObj, last>>
         ELSE UNCHANGED vars

DELE(s, n) ==
    /\ connected[s]
    /\ LET r == DELEReply(s, n)
       IN  IF r.reply = "+OK"
           THEN /\ messages' = DELEMailbox(s, n)
                /\ deleBy' = [deleBy EXCEPT ![s] =
                       @ \cup {messages[PyPos(Len(messages), n - 1)].obj}]
                /\ last' = Last("deleteMessage",
                                deleteMessageEvents(messages, n - 1))
                /\ UNCHANGED <<connected, userIs, mbox>>
           ELSE IF r.reply = "lost"
           THEN /\ Closed(s)
                /\ UNCHANGED <<messages, last>>
           ELSE UNCHANGED <<messages, connected, userIs, mbox, deleBy, last>>
    /\ UNCHANGED <<message_generate_count, nextObj>>

RSET(s) ==
    /\ connected[s]
    /\ IF RSETReply(s).reply = "+OK"
       THEN /\ messages' = RSETMailbox(s)
            /\ last' = Last("undeleteMessages",
                            undeleteMessagesEvents(messages, NoArg))
       ELSE UNCHANGED <<messages, last>>
    /\ UNCHANGED <<message_generate_count, nextObj, connected, userIs, mbox,
                   deleBy>>

\* QUIT: do_QUIT syncs the mailbox if self.mbox is set, answers +OK and
\* closes the connection.
QUIT(s) ==
    /\ connected[s]
    /\ IF mbox[s]
       THEN /\ messages' = sync(messages)
            /\ last' = Last("sync", syncEvents(messages))
       ELSE UNCHANGED <<messages, last>>
    /\ Closed(s)
    /\ UNCHANGED <<message_generate_count, nextObj>>

Next ==
    \/ add_message
    \/ import_message
    \/ \E s \in Sessions :
        \/ Connect(s)
        \/ Disconnect(s)
        \/ \E name \in Usernames : USER(s, name)
        \/ \E password \in Passwords : PASS(s, password)
        \/ STAT(s)
        \/ LIST(s)
        \/ NOOP(s)
        \/ RSET(s)
        \/ QUIT(s)
        \/ \E n \in Numbers :
            \/ LISTn(s, n)
            \/ RETR(s, n)
            \/ UIDLn(s, n)
            \/ DELE(s, n)

Spec == Init /\ [][Next]_vars

\* ------------------------------------------------------ the message log
\* What one handler adds to the global list messagelog (log) next to what
\* it puts on the connection (wire). A line is written without its line
\* ending, which strip("\n\r") removes before the line is logged.
NoTraffic == [log |-> <<>>, wire |-> <<>>]

incoming_line(log, line) == Append(log, "C: " \o line)
outgoing_line(log, line) == Append(log, "S: " \o line)

\* POP3Server.lineReceived: the line has arrived; it is logged, then handled
lineReceived(io, line) ==
    [log |-> incoming_line(io.log, line), wire |-> Append(io.wire, "C: " \o line)]

\* POP3Server.successResponse and POP3Server.sendLine: logged, then sent.
\* POP3.failResponse sends its -ERR line through self.sendLine.
successResponse(io, message) ==
    [log  |-> outgoing_line(io.log, "+OK" \o message),
     wire |-> Append(io.wire, "S: +OK" \o message)]
sendLine(io, line) ==
    [log |-> outgoing_line(io.log, line), wire |-> Append(io.wire, "S: " \o line)]

\* the write that POP3Server inherits and does not override: POP3._coiterate
\* hands the lines of a STAT or LIST response to transport.writeSequence
transportWrite(io, line) ==
    [log |-> io.log, wire |-> Append(io.wire, "S: " \o line)]

\* one received line and the reply to it; write names the way the
\* do_<COMMAND> method of the line sends a success
Traffic(line, reply, write) ==
    LET io == lineReceived(NoTraffic, line)
    IN  IF reply = "+OK"
        THEN IF write = "successResponse" THEN successResponse(io, "")
             ELSE transportWrite(io, "+OK")
        ELSE IF reply = "-ERR" THEN sendLine(io, "-ERR")
        ELSE io

USERTraffic(s)     == Traffic("USER", "+OK", "successResponse")
PASSTraffic(s, password) ==
    Traffic("PASS", PASSReply(s, password).reply, "successResponse")
STATTraffic(s)     == Traffic("STAT", STATReply(s).reply, "_coiterate")
LISTTraffic(s)     == Traffic("LIST", LISTReply(s).reply, "_coiterate")
LISTnTraffic(s, n) == Traffic("LIST", LISTnReply(s, n).reply, "successResponse")
RETRTraffic(s, n)  == Traffic("RETR", RETRReply(s, n).reply, "successResponse")
DELETraffic(s, n)  == Traffic("DELE", DELEReply(s, n).reply, "successResponse")
RSETTraffic(s)     == Traffic("RSET", RSETReply(s).reply, "successResponse")
NOOPTraffic(s)     == Traffic("NOOP", NOOPReply(s).reply, "successResponse")
QUITTraffic(s)     == Traffic("QUIT", "+OK", "successResponse")

\* ------------------------------------------------------------------ claims
Live(msgs)      == {i \in 1..Len(msgs) : ~msgs[i].deleted}
NotDeleted(m)   == ~m.deleted
LiveSizes(msgs) ==
    LET kept == SelectSeq(msgs, NotDeleted)
    IN  [k \in 1..Len(kept) |-> Len(kept[k].content)]
Pos(msgs, o)    == CHOOSE i \in 1..Len(msgs) : msgs[i].obj = o
OutOfRange      == {n \in Numbers : n \notin 1..Len(messages)}

\* C1: at most one session is in TRANSACTION at a time, and a PASS with the
\* right credentials sent while another session is in TRANSACTION is
\* answered with a failure.
C1_OneSessionInTransaction ==
    /\ Cardinality(InTransaction) <= 1
    /\ \A s \in Sessions :
         (connected[s] /\ userIs[s] = DEFAULT_USERNAME
                       /\ InTransaction \ {s} # {})
            => PASSReply(s, DEFAULT_PASSWORD).reply = "-ERR"

\* C2: a message leaves the mailbox only in the QUIT of a session in
\* TRANSACTION that sent DELE for it, and that QUIT removes every message
\* the session sent DELE for.
C2_RemovedOnlyByOwnQuit ==
    [][/\ \A o \in Objs(messages) \ Objs(messages') :
            \E s \in Sessions : QUIT(s) /\ mbox[s] /\ o \in deleBy[s]
       /\ \A s \in Sessions :
            (QUIT(s) /\ mbox[s]) => deleBy[s] \cap Objs(messages') = {}]_vars

\* C3: sync() removes exactly the flagged messages: the objects kept are
\* those not flagged, each kept message is as it was (same content), the
\* kept messages are numbered 1..k with no gap, in their earlier order.
SyncRemovesExactlyFlagged(old, new) ==
    /\ Objs(new) = Objs(old) \ Flagged(old)
    /\ Len(new) = Cardinality(Live(old))
    /\ \A i \in 1..Len(new) :
         /\ new[i].obj \in Objs(old)
         /\ new[i].content = old[Pos(old, new[i].obj)].content
    /\ \A i, j \in 1..Len(new) :
         i < j => Pos(old, new[i].obj) < Pos(old, new[j].obj)

C3_SyncRemovesExactlyFlagged ==
    [][\A s \in Sessions :
         (QUIT(s) /\ mbox[s]) => SyncRemovesExactlyFlagged(messages, messages')]_vars

\* a sync that removed the first message and renumbered the second to 1
C3_Witness ==
    /\ last.op = "sync"
    /\ Len(last.pre) = 2
    /\ last.pre[1].deleted /\ ~last.pre[2].deleted
    /\ Len(messages) = 1
    /\ messages[1].obj = last.pre[2].obj

\* C4: when a session in TRANSACTION is disconnected without QUIT, nothing
\* is removed, the session no longer holds the mailbox, and no message the
\* session sent DELE for is still flagged.
C4_DisconnectDiscardsFlags ==
    [][\A s \in Sessions :
         (Disconnect(s) /\ mbox[s]) =>
            /\ Contents(messages') = Contents(messages)
            /\ ~mbox'[s]
            /\ deleBy[s] \cap Flagged(messages') = {}]_vars

\* C5: whenever a session enters TRANSACTION, no message is flagged.
C5_NoFlagsAtSessionStart ==
    [][\A s \in Sessions :
         (~mbox[s] /\ mbox'[s]) => Flagged(messages') = {}]_vars

\* C6: LIST with no argument has one entry per message that is not flagged,
\* none for a flagged one, each with the length of the message's content,
\* and STAT gives the count and the total of the messages not flagged.
C6_ListOmitsDeleted ==
    \A s \in InTransaction :
        /\ Len(LISTReply(s).data) = Cardinality(Live(messages))
        /\ \A k \in 1..Len(LISTReply(s).data) :
             LET e == LISTReply(s).data[k]
             IN  /\ e[1] \in Live(messages)
                 /\ e[2] = Len(messages[e[1]].content)
        /\ STATReply(s).data =
             <<Cardinality(Live(messages)), Sum(LiveSizes(messages))>>

\* C7: RSET in TRANSACTION is answered +OK and leaves no message flagged.
C7_RsetClearsEveryFlag ==
    \A s \in InTransaction :
        /\ RSETReply(s).reply = "+OK"
        /\ Flagged(RSETMailbox(s)) = {}

\* C8: list(n), get(n), uid(n) and delete(n) fail for every n outside
\* 1..Len(messages), 0 and negative n included, and leave the mailbox as
\* it is.
C8_OutOfRangeFails ==
    \A s \in InTransaction : \A n \in OutOfRange :
        /\ listMessages(messages, Arg(n - 1)).exc # ""
        /\ getMessage(messages, n - 1).exc # ""
        /\ getUidl(messages, n - 1).exc # ""
        /\ deleteMessage(messages, n - 1).exc # ""
        /\ DELEReply(s, n).reply # "+OK"
        /\ DELEMailbox(s, n) = messages

\* C9: LIST n, RETR n and UIDL n are answered with a failure when message
\* n is in range and flagged.
C9_DeletedMessageRefused ==
    \A s \in InTransaction : \A n \in 1..Len(messages) :
        messages[n].deleted =>
            /\ LISTnReply(s, n).reply = "-ERR"
            /\ RETRReply(s, n).reply = "-ERR"
            /\ \A r \in UIDLnReplies(s, n) : r.reply = "-ERR"

\* C10: DELE n on a flagged message is answered with a failure and changes
\* nothing; DELE n on a message in range that is not flagged is answered
\* +OK and sets the flag of that message only.
C10_DeleteTwiceFails ==
    \A s \in InTransaction : \A n \in 1..Len(messages) :
        IF messages[n].deleted
        THEN /\ DELEReply(s, n).reply = "-ERR"
             /\ DELEMailbox(s, n) = messages
        ELSE /\ DELEReply(s, n).reply = "+OK"
             /\ DELEMailbox(s, n) =
                    [messages EXCEPT ![n] = [@ EXCEPT !.deleted = TRUE]]

\* C11: for a session in TRANSACTION and a message n in range that is not
\* flagged, get(n) returns normally with the stored content and RETR n is
\* answered +OK with that content.
C11_RetrReturnsContent ==
    \A s \in InTransaction : \A n \in Live(messages) :
        /\ getMessage(messages, n - 1).exc = ""
        /\ RETRReply(s, n).reply = "+OK"
        /\ RETRReply(s, n).data = <<messages[n].content>>

\* C12: while a session stays in TRANSACTION, every message number keeps
\* referring to the same message, whatever addMessage and the other
\* sessions do in between.
C12_NumbersStableInSession ==
    [][\A s \in Sessions :
          (mbox[s] /\ mbox'[s]) =>
              \A n \in 1..Len(messages) :
                  /\ n <= Len(messages')
                  /\ messages'[n].obj = messages[n].obj]_vars

\* C13: the hold of a session ends with the session: after its QUIT or its
\* disconnect the session is not in TRANSACTION any more, a PASS is
\* answered at once with +OK or -ERR, and when no other session is in
\* TRANSACTION a PASS with the configured pair, sent after USER, is
\* answered +OK and puts the session in TRANSACTION.
C13_HoldEndsWithSession ==
    /\ [](\A s \in Sessions : \A password \in Passwords :
            /\ PASSReply(s, password).reply \in {"+OK", "-ERR"}
            /\ (/\ connected[s]
                /\ userIs[s] = DEFAULT_USERNAME
                /\ password = DEFAULT_PASSWORD
                /\ InTransaction \ {s} = {})
               => PASSReply(s, password).reply = "+OK")
    /\ [][\A s \in Sessions :
            /\ (QUIT(s) \/ Disconnect(s)) => s \notin InTransaction'
            /\ (/\ PASS(s, DEFAULT_PASSWORD)
                /\ userIs[s] = DEFAULT_USERNAME
                /\ InTransaction \ {s} = {})
               => InTransaction' = {s}]_vars

\* the last session in TRANSACTION has ended with a QUIT and its sync, and
\* a session that has sent USER with the configured name is about to PASS
C13_Witness ==
    /\ last.op = "sync"
    /\ InTransaction = {}
    /\ \E s \in Sessions : connected[s] /\ userIs[s] = DEFAULT_USERNAME

\* C14: a session enters TRANSACTION only in a PASS, sent after a USER, whose
\* username and password are the configured pair; a PASS with any other
\* pair is answered -ERR, leaves a session in AUTHORIZATION where it was,
\* with every mailbox command refused, and leaves the mailbox as it is.
C14_OnlyConfiguredPairEnters ==
    /\ [](\A s \in Sessions :
            /\ \A password \in Passwords :
                 (connected[s] /\ <<userIs[s], password>> #
                                     <<DEFAULT_USERNAME, DEFAULT_PASSWORD>>)
                     => PASSReply(s, password).reply = "-ERR"
            /\ SessionState(s) = "AUTHORIZATION" =>
                 /\ STATReply(s).reply = "-ERR"
                 /\ LISTReply(s).reply = "-ERR"
                 /\ RSETReply(s).reply = "-ERR"
                 /\ \A n \in Numbers :
                      /\ LISTnReply(s, n).reply = "-ERR"
                      /\ RETRReply(s, n).reply = "-ERR"
                      /\ UIDLnReplies(s, n) = {Reply("-ERR", <<>>)}
                      /\ DELEReply(s, n).reply = "-ERR"
                      /\ DELEMailbox(s, n) = messages)
    /\ [][\A s \in Sessions :
            /\ (s \notin InTransaction /\ s \in InTransaction') =>
                 /\ SessionState(s) = "AUTHORIZATION"
                 /\ userIs[s] = DEFAULT_USERNAME
                 /\ PASS(s, DEFAULT_PASSWORD)
            /\ \A password \in Passwords :
                 (/\ PASS(s, password)
                  /\ SessionState(s) = "AUTHORIZATION"
                  /\ <<userIs[s], password>> #
                         <<DEFAULT_USERNAME, DEFAULT_PASSWORD>>)
                 => /\ SessionState(s)' = "AUTHORIZATION"
                    /\ messages' = messages]_vars

\* one session has entered TRANSACTION with the configured pair while
\* another, in AUTHORIZATION, has sent USER with a name that is not the
\* configured one
C14_Witness ==
    \E s, t \in Sessions :
        /\ SessionState(s) = "TRANSACTION"
        /\ SessionState(t) = "AUTHORIZATION"
        /\ userIs[t] \notin {None, DEFAULT_USERNAME}

\* C15: for a session in TRANSACTION and messages in range that are not
\* flagged, uid(n) returns normally, UIDL n is answered +OK, and two
\* messages have the same UID exactly when they have the same content.
C15_UidFunctionOfContent ==
    \A s \in InTransaction : \A n \in Live(messages) :
        /\ getUidl(messages, n - 1).exc = ""
        /\ \A r \in UIDLnReplies(s, n) : r.reply = "+OK"
        /\ \A m \in Live(messages) :
             (getUidl(messages, n - 1).val = getUidl(messages, m - 1).val)
                 <=> (messages[n].content = messages[m].content)

\* C16: for every command a connected client sends, the lines the handler
\* appends to the message log are the lines that crossed the connection,
\* each once and in the same order: the received line first, then the
\* reply.
C16_LogIsWireTraffic ==
    \A s \in Sessions : connected[s] =>
        /\ USERTraffic(s).log = USERTraffic(s).wire
        /\ \A password \in Passwords :
             PASSTraffic(s, password).log = PASSTraffic(s, password).wire
        /\ NOOPTraffic(s).log = NOOPTraffic(s).wire
        /\ RSETTraffic(s).log = RSETTraffic(s).wire
        /\ QUITTraffic(s).log = QUITTraffic(s).wire
        /\ \A n \in Numbers :
             /\ LISTnTraffic(s, n).log = LISTnTraffic(s, n).wire
             /\ RETRTraffic(s, n).log = RETRTraffic(s, n).wire
             /\ DELETraffic(s, n).log = DELETraffic(s, n).wire
        /\ STATTraffic(s).log = STATTraffic(s).wire
        /\ LISTTraffic(s).log = LISTTraffic(s).wire

\* C17: a message added by the GUI goes to the end of the mailbox with its
\* flag clear: the mailbox is one longer and every message it held keeps
\* its number, its content and its flag, also while a session is in
\* TRANSACTION.
C17_AddAppendsUnflagged ==
    [][(add_message \/ import_message) =>
          /\ Len(messages') = Len(messages) + 1
          /\ \A i \in 1..Len(messages) : messages'[i] = messages[i]
          /\ ~messages'[Len(messages) + 1].deleted
          /\ messages'[Len(messages) + 1].obj \notin Objs(messages)]_vars

\* a message was added behind one that a session still in TRANSACTION had
\* flagged before
C17_Witness ==
    /\ last.op = "addMessage"
    /\ Len(messages) = Len(last.pre) + 1
    /\ \E s \in InTransaction : \E i \in 1..Len(last.pre) :
         /\ last.pre[i].deleted
         /\ last.pre[i].obj \in deleBy[s]

\* C18: a sync and an addMessage generate exactly one mailbox-changed
\* event each, and so does an undelete that returns normally; the event
\* finds the mailbox already changed, and no step generates more than one.
\* A delete or undelete that raises generates none, a QUIT outside
\* TRANSACTION leaves the last event standing, and list, get and uid
\* generate none.
C18_OneEventAfterEachChange ==
    /\ [](\A n \in Numbers :
            /\ undeleteMessages(messages, Arg(n - 1)).exc = "" =>
                 undeleteMessagesEvents(messages, Arg(n - 1)) =
                     <<undeleteMessages(messages, Arg(n - 1)).val>>
            /\ undeleteMessages(messages, Arg(n - 1)).exc # "" =>
                 undeleteMessagesEvents(messages, Arg(n - 1)) = <<>>
            /\ deleteMessage(messages, n - 1).exc # "" =>
                 deleteMessageEvents(messages, n - 1) = <<>>
            /\ undeleteMessagesEvents(messages, NoArg) = <<>>
            /\ listMessagesEvents(messages, NoArg) = <<>>
            /\ listMessagesEvents(messages, Arg(n - 1)) = <<>>
            /\ getMessageEvents(messages, n - 1) = <<>>
            /\ getUidlEvents(messages, n - 1) = <<>>)
    /\ [][/\ (Len(messages') > Len(messages) /\ (add_message \/ import_message))
               => last'.events = <<messages'>>
          /\ \A s \in Sessions :
               /\ (mbox[s] /\ ~connected'[s] /\ QUIT(s))
                    => last'.events = <<messages'>>
               /\ (~mbox[s] /\ ~connected'[s] /\ QUIT(s)) => last' = last
          /\ messages' # messages => last'.pre = messages
          /\ last' # last => last'.events = <<messages'>>]_vars

\* the sync of a QUIT has removed a message, and its one event was
\* generated with the shortened mailbox in place
C18_Witness ==
    /\ last.op = "sync"
    /\ Len(last.events) = 1
    /\ last.events[1] = messages
    /\ Len(messages) < Len(last.pre)

\* C19: delete and undelete change flags only; the sequence of contents
\* changes only when the GUI adds a message, which puts one content at the
\* end, or in the sync of a QUIT, which takes out the contents of the
\* flagged messages; no step changes the content of a message that stays
\* or the order of two messages that stay.
C19_ContentsChangeOnlyByAddOrSync ==
    /\ [](\A n \in Numbers :
            /\ deleteMessage(messages, n - 1).exc = "" =>
                 Contents(deleteMessage(messages, n - 1).val) =
                     Contents(messages)
            /\ undeleteMessages(messages, Arg(n - 1)).exc = "" =>
                 Contents(undeleteMessages(messages, Arg(n - 1)).val) =
                     Contents(messages))
    /\ [][/\ last'.op = "deleteMessage" =>
               Contents(messages') = Contents(messages)
          /\ Contents(messages') # Contents(messages) =>
               \/ /\ add_message \/ import_message
                  /\ Len(messages') = Len(messages) + 1
                  /\ SubSeq(Contents(messages'), 1, Len(messages)) =
                         Contents(messages)
               \/ /\ \E s \in InTransaction : QUIT(s)
                  /\ Contents(messages') =
                         Contents(SelectSeq(messages, NotDeleted))
          /\ \A o \in Objs(messages) \cap Objs(messages') :
               /\ messages'[Pos(messages', o)].content =
                      messages[Pos(messages, o)].content
               /\ \A p \in Objs(messages) \cap Objs(messages') :
                    Pos(messages, o) < Pos(messages, p)
                        => Pos(messages', o) < Pos(messages', p)]_vars

\* a DELE has flagged one of two messages and both contents are where
\* they were
C19_Witness ==
    /\ last.op = "deleteMessage"
    /\ Len(messages) = 2
    /\ Flagged(messages) # Flagged(last.pre)
    /\ Contents(messages) = Contents(last.pre)

\* C20: right after the sync of a QUIT no message is flagged, and a sync
\* that follows a sync with no other mailbox write in between leaves the
\* mailbox as it found it (sync is idempotent).
C20_SyncIdempotent ==
    /\ [](/\ last.op = "sync" => \A i \in 1..Len(messages) : ~messages[i].deleted
          /\ sync(sync(messages)) = sync(messages))
    /\ [][\A s \in Sessions :
            (mbox[s] /\ ~connected'[s] /\ QUIT(s)) =>
                /\ Flagged(messages') = {}
                /\ last.op = "sync" => messages' = messages]_vars

\* a sync has run on a mailbox that an earlier sync had shortened and that
\* nothing had written since, and has removed nothing from it
C20_Witness ==
    /\ last.op = "sync"
    /\ last.pre = messages
    /\ messages # <<>>
    /\ Len(messages) < nextObj - 1

=============================================================================
